---- MODULE Spec2Model ----
(***************************************************************************)
(* Barber-shop backend: the data access layer (src/db.js), the HTTP        *)
(* routes (routes/api.js, kept as src/unnamed/part_000), the schema setup  *)
(* (src/setupDatabase.js) and the process lifecycle (src/app.js).          *)
(*                                                                         *)
(* Each subsystem has its own specification:                               *)
(*   SpecTx         db.transaction(callback), several calls in flight      *)
(*   SpecRef        the reference-data routes (customers, services, staff) *)
(*   SpecLedger     the records / expenses routes                          *)
(*   SpecReport     the three reports, no write during a daily summary     *)
(*   SpecConcurrent the daily summary with writes between its queries      *)
(*   SpecSetup      setupDatabase(), statement by statement                *)
(*   SpecBuild      the statement builders update and buildWhereClause     *)
(*   SpecShutdown   the SIGTERM / SIGINT / uncaughtException handlers      *)
(* Every specification constrains all variables; the variables of the      *)
(* other subsystems keep an idle value.                                    *)
(***************************************************************************)
EXTENDS Integers, Sequences, FiniteSets, TLC

VARIABLES
    tx,            \* per call of transaction(): its position and what it did
    checkedOut,    \* clients of the pool currently checked out
    customers,     \* the rows of table customers
    services,      \* the rows of table services
    staff,         \* the rows of table staff
    expense_types, \* the rows of table expense_types
    records,       \* the rows of table records
    expenses,      \* the rows of table expenses
    seq,           \* per table, the next value of its id sequence (SERIAL)
    resp,          \* the HTTP request handled last and the response sent
    server,        \* the HTTP server: listening / closing / closed
    handling,      \* requests in flight that hold no client of the pool
    querying,      \* requests in flight that wait for a query
    pool,          \* the shared pool: open / ending / ended
    endCalls,      \* calls of pool.end() so far
    endWaiter,     \* whose pool.end() call is waiting for the pool to end
    closeCbs,      \* callbacks of server.close() not yet run
    forceTimer,    \* the 10 s forced-shutdown timer is armed
    events,        \* signals and uncaught exceptions delivered so far
    proc,          \* the process: running / exit0 / exit1
    report,        \* the report request in flight and the rows it has read
    setup,         \* the run of setupDatabase(): its position and locals
    built          \* the statement the helper called last has built

txVars == <<tx, checkedOut>>
dbVars == <<customers, services, staff, expense_types, records, expenses, seq>>
shutVars == <<server, handling, querying, pool, endCalls, endWaiter, closeCbs,
              forceTimer, events, proc>>
jobVars == <<report, setup, built>>
vars == <<txVars, dbVars, resp, shutVars, jobVars>>

Range(s) == {s[i] : i \in DOMAIN s}

(***************************************************************************)
(* db.transaction(callback)                      src/db.js lines 215-229   *)
(***************************************************************************)

\* Concurrent calls of transaction() modelled.
NumCalls == 2

\* dbConfig.max: clients the pool hands out at once.
PoolMax == 10

Calls == 1..NumCalls

NoOutcome == [kind |-> "pending", error |-> "none"]

TxInitial ==
    [pc       |-> "connect",   \* next step of the async function
     acquired |-> FALSE,       \* pool.connect() resolved with a client
     stmts    |-> <<>>,        \* statements issued on the client, in order
     cb       |-> "none",      \* callback: none (not invoked) / ok / fail
     commitOk |-> FALSE,       \* the COMMIT statement succeeded
     error    |-> "none",      \* the error caught by the catch block
     pending  |-> NoOutcome,   \* completion of the try/catch, before finally
     releases |-> 0,           \* calls of client.release()
     outcome  |-> NoOutcome]   \* how the promise of transaction() settled

TxInit ==
    /\ tx = [c \in Calls |-> TxInitial]
    /\ checkedOut = 0

\* const client = await pool.connect();   (outside the try block)
Connect(c) ==
    /\ tx[c].pc = "connect"
    /\ \/ /\ checkedOut < PoolMax
          /\ tx' = [tx EXCEPT ![c].pc = "begin", ![c].acquired = TRUE]
          /\ checkedOut' = checkedOut + 1
       \/ /\ tx' = [tx EXCEPT ![c].pc = "done",
                              ![c].outcome = [kind |-> "rejected", error |-> "connectErr"]]
          /\ UNCHANGED checkedOut
    /\ UNCHANGED <<dbVars, resp, shutVars, jobVars>>

\* await client.query('BEGIN');
Begin(c) ==
    /\ tx[c].pc = "begin"
    /\ \E ok \in BOOLEAN :
         tx' = [tx EXCEPT ![c].stmts = Append(@, "BEGIN"),
                          ![c].pc    = IF ok THEN "callback" ELSE "catch",
                          ![c].error = IF ok THEN @ ELSE "beginErr"]
    /\ UNCHANGED <<checkedOut, dbVars, resp, shutVars, jobVars>>

\* A faulty callback step: a failure of the callback is swallowed and the
\* function goes on to COMMIT.
CallbackSwallowed(c) ==
    /\ tx[c].pc = "callback"
    /\ \E ok \in BOOLEAN :
         tx' = [tx EXCEPT ![c].cb = IF ok THEN "ok" ELSE "fail",
                          ![c].pc = "commit"]
    /\ UNCHANGED <<checkedOut, dbVars, resp, shutVars, jobVars>>

\* const result = await callback(client);
Callback(c) ==
    /\ tx[c].pc = "callback"
    /\ \E ok \in BOOLEAN :
         tx' = [tx EXCEPT ![c].cb    = IF ok THEN "ok" ELSE "fail",
                          ![c].pc    = IF ok THEN "commit" ELSE "catch",
                          ![c].error = IF ok THEN @ ELSE "cbErr"]
    /\ UNCHANGED <<checkedOut, dbVars, resp, shutVars, jobVars>>

\* await client.query('COMMIT'); return result;
Commit(c) ==
    /\ tx[c].pc = "commit"
    /\ \E ok \in BOOLEAN :
         tx' = [tx EXCEPT ![c].stmts    = Append(@, "COMMIT"),
                          ![c].commitOk = ok,
                          ![c].pc       = IF ok THEN "finally" ELSE "catch",
                          ![c].error    = IF ok THEN @ ELSE "commitErr",
                          ![c].pending  = IF ok THEN [kind |-> "resolved", error |-> "none"]
                                                ELSE @]
    /\ UNCHANGED <<checkedOut, dbVars, resp, shutVars, jobVars>>

\* A faulty catch block: client.release() sits after the try/catch instead
\* of in a finally, so a throwing ROLLBACK leaves the function without it.
RollbackNoFinally(c) ==
    /\ tx[c].pc = "catch"
    /\ \/ tx' = [tx EXCEPT ![c].stmts   = Append(@, "ROLLBACK"),
                           ![c].pc      = "finally",
                           ![c].pending = [kind |-> "rejected", error |-> tx[c].error]]
       \/ tx' = [tx EXCEPT ![c].stmts   = Append(@, "ROLLBACK"),
                           ![c].pc      = "done",
                           ![c].outcome = [kind |-> "rejected", error |-> "rollbackErr"]]
    /\ UNCHANGED <<checkedOut, dbVars, resp, shutVars, jobVars>>

\* catch (error) { await client.query('ROLLBACK'); ...; throw error; }
\* A rejected ROLLBACK leaves the catch block with the ROLLBACK's error.
Rollback(c) ==
    /\ tx[c].pc = "catch"
    /\ \E ok \in BOOLEAN :
         tx' = [tx EXCEPT ![c].stmts   = Append(@, "ROLLBACK"),
                          ![c].pc      = "finally",
                          ![c].pending = [kind  |-> "rejected",
                                          error |-> IF ok THEN tx[c].error
                                                          ELSE "rollbackErr"]]
    /\ UNCHANGED <<checkedOut, dbVars, resp, shutVars, jobVars>>

\* finally { client.release(); }  and the promise settles with the pending
\* completion.
Finally(c) ==
    /\ tx[c].pc = "finally"
    /\ tx' = [tx EXCEPT ![c].releases = @ + 1,
                        ![c].pc       = "done",
                        ![c].outcome  = tx[c].pending]
    /\ checkedOut' = checkedOut - 1
    /\ UNCHANGED <<dbVars, resp, shutVars, jobVars>>

TxNext ==
    \E c \in Calls :
        \/ Connect(c)
        \/ Begin(c)
        \/ Callback(c)
        \/ Commit(c)
        \/ Rollback(c)
        \/ Finally(c)

Settled(c) == tx[c].pc = "done"

\* C1: every call of transaction() that acquired a client has released it
\* exactly once when it settles, on every exit path, and never more than
\* once; a call whose connect failed releases nothing; the pool's count of
\* checked-out clients is the number of calls still holding one.
TxReleasesExactlyOnce ==
    /\ \A c \in Calls :
         /\ tx[c].releases <= 1
         /\ (Settled(c) /\ tx[c].acquired) => tx[c].releases = 1
         /\ ~tx[c].acquired => tx[c].releases = 0
         /\ tx[c].releases = 1 => tx[c].pc = "done"
    /\ checkedOut = Cardinality({c \in Calls : tx[c].acquired /\ tx[c].releases = 0})
    /\ (\A c \in Calls : Settled(c)) => checkedOut = 0

\* C1 witness: a call whose callback failed and whose ROLLBACK failed too has
\* settled with its client released, next to a call that committed.
TxReleasedAfterFailedRollback ==
    \E c, d \in Calls :
        /\ Settled(c) /\ tx[c].cb = "fail" /\ tx[c].outcome.error = "rollbackErr"
        /\ tx[c].releases = 1
        /\ Settled(d) /\ tx[d].commitOk /\ tx[d].releases = 1
        /\ checkedOut = 0

\* C2: whenever the callback failed, transaction() rejects with the
\* callback's own error, whatever the ROLLBACK did.
TxReraisesCallbackError ==
    \A c \in Calls :
        (Settled(c) /\ tx[c].cb = "fail") =>
            tx[c].outcome = [kind |-> "rejected", error |-> "cbErr"]

\* C3: BEGIN is the first statement and precedes the callback; COMMIT is
\* issued exactly when the callback completed without error; a failed
\* callback is followed by ROLLBACK and never by COMMIT; no ROLLBACK follows
\* a COMMIT that succeeded.
TxStatementOrder ==
    \A c \in Calls :
        LET s == tx[c].stmts
            past == tx[c].pc \in {"finally", "done"} /\ tx[c].acquired
        IN  /\ tx[c].cb # "none" => (Len(s) >= 1 /\ s[1] = "BEGIN")
            /\ \A i \in DOMAIN s : s[i] = "BEGIN" => i = 1
            /\ "COMMIT" \in Range(s) => tx[c].cb = "ok"
            /\ (tx[c].cb = "ok" /\ tx[c].pc # "commit") => "COMMIT" \in Range(s)
            /\ (tx[c].cb = "fail" /\ past) =>
                   ("ROLLBACK" \in Range(s) /\ "COMMIT" \notin Range(s))
            /\ tx[c].commitOk => "ROLLBACK" \notin Range(s)
            /\ \A i, j \in DOMAIN s :
                   (s[i] = "ROLLBACK" /\ s[j] = "COMMIT") => j < i

\* C3 witness: one call committed after its callback succeeded, another
\* rolled back after its callback failed.
TxCommittedAndRolledBack ==
    \E c, d \in Calls :
        /\ Settled(c) /\ tx[c].cb = "ok" /\ tx[c].stmts = <<"BEGIN", "COMMIT">>
        /\ Settled(d) /\ tx[d].cb = "fail" /\ tx[d].stmts = <<"BEGIN", "ROLLBACK">>

(***************************************************************************)
(* The relational store: schema and seed rows of src/setupDatabase.js.     *)
(* A table is the set of its rows; Turkish letters of the seed names are   *)
(* written in ASCII.  Each handler runs one statement, which the store     *)
(* executes atomically.                                                    *)
(***************************************************************************)

\* Rows a request sequence may add to one table.
MaxInserts == 2

\* The SQL null (a column left out of the body arrives as null).
NULL == "<null>"

\* The store's SQLSTATE codes the statements of the routes can raise.
OK == "00000"
UndefinedColumn == "42703"
UniqueViolation == "23505"
NotNullViolation == "23502"
CheckViolation == "23514"
DatetimeFieldOverflow == "22008"

NoRow == [id |-> 0]

\* CREATE TABLE IF NOT EXISTS ...: the columns of each table.
SchemaColumns(t) ==
    CASE t = "customers" -> {"id", "name", "phone", "email", "created_at"}
      [] t \in {"services", "staff", "expense_types"} -> {"id", "name", "active"}
      [] t = "records" -> {"id", "date", "customer_name", "service", "staff",
                           "price", "payment_type", "created_at"}
      [] t = "expenses" -> {"id", "date", "type", "description", "amount",
                            "payment_type", "created_at"}

\* CHECK (payment_type IN ('Nakit', 'Kart', 'Banka'))
PaymentTypes == {"Nakit", "Kart", "Banka"}

DefaultServices ==
    <<"Sac", "Sakal", "Sac Sakal", "Bakim", "Urun", "Boya", "Manikur",
      "Pedikur", "Manikur Pedikur", "Agda", "Kas">>

DefaultStaff == <<"Ufuk", "Muhammet", "Manikurist", "Kalfa">>

DefaultExpenseTypes ==
    <<"Kira", "Elektrik Faturasi", "Su Faturasi", "Dogalgaz Faturasi",
      "Sgk Prim Odemeleri", "Internet ve Telefon Faturasi",
      "Kredi Finansbank Odemesi", "Kurutemizleme Giderleri",
      "Muhasebe ve Hukuk Giderleri", "Genel Giderler",
      "Yiyecek Icecek Giderleri", "Malzeme Alimlari", "Ufuk Maas / Avans",
      "Muhammet Maas / Avans", "Manikurist Maas / Avans",
      "Eleman Maas / Avans", "Ciraklar Maas / Avans">>

\* INSERT INTO <table> (name, active) VALUES ($1, true) for each default
\* name, into an empty table: ids 1..n in list order.
Seeded(names) ==
    {[id |-> i, name |-> names[i], active |-> TRUE] : i \in DOMAIN names}

\* The id sequences after the seed rows.
InitialSeq ==
    [customers     |-> 1,
     services      |-> Len(DefaultServices) + 1,
     staff         |-> Len(DefaultStaff) + 1,
     expense_types |-> Len(DefaultExpenseTypes) + 1,
     records       |-> 1,
     expenses      |-> 1]

\* The database after setupDatabase() has run on an empty database.
DbInit ==
    /\ customers = {}
    /\ services = Seeded(DefaultServices)
    /\ staff = Seeded(DefaultStaff)
    /\ expense_types = Seeded(DefaultExpenseTypes)
    /\ records = {}
    /\ expenses = {}
    /\ seq = InitialSeq

RespInit == resp = [op |-> "none", status |-> 0]

(***************************************************************************)
(* Text parameters as the store reads them.  A text is a sequence of       *)
(* one-character strings.                                                  *)
(***************************************************************************)

Digits == {"0", "1", "2", "3", "4", "5", "6", "7", "8", "9"}

DigitVal(ch) ==
    CASE ch = "0" -> 0 [] ch = "1" -> 1 [] ch = "2" -> 2 [] ch = "3" -> 3
      [] ch = "4" -> 4 [] ch = "5" -> 5 [] ch = "6" -> 6 [] ch = "7" -> 7
      [] ch = "8" -> 8 [] ch = "9" -> 9

IsNumeral(s) == Len(s) > 0 /\ \A i \in DOMAIN s : s[i] \in Digits

RECURSIVE NumeralVal(_)
NumeralVal(s) ==
    IF s = <<>> THEN 0
    ELSE 10 * NumeralVal(SubSeq(s, 1, Len(s) - 1)) + DigitVal(s[Len(s)])

\* String.prototype.padStart(n, ch)
RECURSIVE PadStart(_, _, _)
PadStart(s, n, ch) == IF Len(s) >= n THEN s ELSE PadStart(<<ch>> \o s, n, ch)

IsLeapYear(y) == (y % 4 = 0 /\ y % 100 # 0) \/ y % 400 = 0

DaysInMonth(y, m) ==
    IF m = 2 THEN (IF IsLeapYear(y) THEN 29 ELSE 28)
    ELSE IF m \in {4, 6, 9, 11} THEN 30 ELSE 31

\* A date text "y-m-d" is kept as its three fields.
DateText(y, m, d) == [y |-> y, m |-> m, d |-> d]

\* The store's input conversion of a text to type DATE: the calendar date
\* <<y, m, d>>, or no date when a field is out of range.
IsDateText(t) ==
    /\ IsNumeral(t.y) /\ IsNumeral(t.m) /\ IsNumeral(t.d)
    /\ NumeralVal(t.m) \in 1..12
    /\ NumeralVal(t.d) \in 1..DaysInMonth(NumeralVal(t.y), NumeralVal(t.m))

DateIn(t) == <<NumeralVal(t.y), NumeralVal(t.m), NumeralVal(t.d)>>

\* a <= b on calendar dates
DateLE(a, b) ==
    \/ a[1] < b[1]
    \/ a[1] = b[1] /\ a[2] < b[2]
    \/ a[1] = b[1] /\ a[2] = b[2] /\ a[3] <= b[3]

(***************************************************************************)
(* Statements of the reference-data routes.                                *)
(***************************************************************************)

\* INSERT INTO <t> (<cols>) VALUES (...) RETURNING * on a table whose name
\* column is UNIQUE NOT NULL: the statement is analysed against the schema
\* first, then the row is checked and stored with the next id.
InsertNamed(t, cols, table, id, row) ==
    IF ~(cols \subseteq SchemaColumns(t))
    THEN [code |-> UndefinedColumn, row |-> NoRow]
    ELSE IF row.name = NULL
    THEN [code |-> NotNullViolation, row |-> NoRow]
    ELSE IF \E r \in table : r.name = row.name
    THEN [code |-> UniqueViolation, row |-> NoRow]
    ELSE [code |-> OK, row |-> [id |-> id] @@ row]

\* The id parameter of WHERE id = $1 converted to integer; rows it selects.
RowsWithId(table, idText) == {r \in table : r.id = NumeralVal(idText)}

\* A faulty UPDATE: the WHERE clause is lost and every row is deactivated.
DeactivatedEveryRow(table, idText) ==
    {[r EXCEPT !.active = FALSE] : r \in table}

\* UPDATE <t> SET active = false WHERE id = $1 RETURNING *
DeactivatedTable(table, idText) ==
    {IF r.id = NumeralVal(idText) THEN [r EXCEPT !.active = FALSE] ELSE r : r \in table}

\* SELECT * FROM <t> [WHERE active = true] ORDER BY name  (as a set of rows)
Listed(table, includeInactive) ==
    IF includeInactive THEN table ELSE {r \in table : r.active = TRUE}

\* catch (error) of the three create routes: '23505' is the duplicate.
CreateStatus(code) ==
    IF code = OK THEN 200 ELSE IF code = UniqueViolation THEN 400 ELSE 500

\* Names and ids the requests of the model carry.
NameInputs == {"Sac", "Ufuk", NULL}
IdInputs == {<<"1">>, <<"5">>, <<"9", "9">>, <<"a">>}
FlagInputs == {"true", "false", NULL}

\* The bound on inserted rows leaves room for one more row in table t.
Room(t) == seq[t] - InitialSeq[t] < MaxInserts

(***************************************************************************)
(* Reference-data routes                 src/unnamed/part_000 170-390      *)
(***************************************************************************)

\* router.post('/customers')
PostCustomer(body) ==
    LET r == InsertNamed("customers", {"name", "phone", "email"},
                         customers, seq.customers, body)
    IN  /\ r.code = OK => Room("customers")
        /\ customers' = IF r.code = OK THEN customers \cup {r.row} ELSE customers
        /\ seq' = IF r.code = OK THEN [seq EXCEPT !.customers = @ + 1] ELSE seq
        /\ resp' = [op |-> "POST /customers", req |-> body,
                    status |-> CreateStatus(r.code), body |-> r.row]
        /\ UNCHANGED <<services, staff, expense_types, records, expenses, txVars, shutVars, jobVars>>

\* router.post('/services'): the statement names the column default_price.
PostService(body) ==
    LET r == InsertNamed("services", {"name", "default_price", "active"},
                         services, seq.services,
                         [name |-> body.name, default_price |-> body.default_price,
                          active |-> TRUE])
    IN  /\ r.code = OK => Room("services")
        /\ services' = IF r.code = OK THEN services \cup {r.row} ELSE services
        /\ seq' = IF r.code = OK THEN [seq EXCEPT !.services = @ + 1] ELSE seq
        /\ resp' = [op |-> "POST /services", req |-> body,
                    status |-> CreateStatus(r.code), body |-> r.row]
        /\ UNCHANGED <<customers, staff, expense_types, records, expenses, txVars, shutVars, jobVars>>

\* router.post('/staff')
PostStaff(body) ==
    LET r == InsertNamed("staff", {"name", "active"}, staff, seq.staff,
                         [name |-> body.name, active |-> TRUE])
    IN  /\ r.code = OK => Room("staff")
        /\ staff' = IF r.code = OK THEN staff \cup {r.row} ELSE staff
        /\ seq' = IF r.code = OK THEN [seq EXCEPT !.staff = @ + 1] ELSE seq
        /\ resp' = [op |-> "POST /staff", req |-> body,
                    status |-> CreateStatus(r.code), body |-> r.row]
        /\ UNCHANGED <<customers, services, expense_types, records, expenses, txVars, shutVars, jobVars>>

\* The response of a soft delete: 500 when the id is no integer, 404 when
\* the UPDATE returned no row, else the updated row.
SoftDeleteResponse(op, table, idText) ==
    IF ~IsNumeral(idText)
    THEN [op |-> op, req |-> idText, status |-> 500, body |-> NoRow]
    ELSE IF RowsWithId(table, idText) = {}
    THEN [op |-> op, req |-> idText, status |-> 404, body |-> NoRow]
    ELSE [op |-> op, req |-> idText, status |-> 200,
          body |-> CHOOSE r \in RowsWithId(DeactivatedTable(table, idText), idText) : TRUE]

\* router.delete('/services/:id')
DeleteService(idText) ==
    /\ services' = IF IsNumeral(idText) THEN DeactivatedTable(services, idText)
                   ELSE services
    /\ resp' = SoftDeleteResponse("DELETE /services/:id", services, idText)
    /\ UNCHANGED <<customers, staff, expense_types, records, expenses, seq, txVars, shutVars, jobVars>>

\* router.delete('/staff/:id')
DeleteStaff(idText) ==
    /\ staff' = IF IsNumeral(idText) THEN DeactivatedTable(staff, idText) ELSE staff
    /\ resp' = SoftDeleteResponse("DELETE /staff/:id", staff, idText)
    /\ UNCHANGED <<customers, services, expense_types, records, expenses, seq, txVars, shutVars, jobVars>>

\* const includeInactive = req.query.includeInactive === 'true';
IncludeInactive(flag) == flag = "true"

\* router.get('/services')
GetServices(flag) ==
    /\ resp' = [op |-> "GET /services", req |-> flag, status |-> 200,
                body |-> Listed(services, IncludeInactive(flag))]
    /\ UNCHANGED <<dbVars, txVars, shutVars, jobVars>>

\* router.get('/staff')
GetStaff(flag) ==
    /\ resp' = [op |-> "GET /staff", req |-> flag, status |-> 200,
                body |-> Listed(staff, IncludeInactive(flag))]
    /\ UNCHANGED <<dbVars, txVars, shutVars, jobVars>>

\* router.get('/expense-types')
GetExpenseTypes(flag) ==
    /\ resp' = [op |-> "GET /expense-types", req |-> flag, status |-> 200,
                body |-> Listed(expense_types, IncludeInactive(flag))]
    /\ UNCHANGED <<dbVars, txVars, shutVars, jobVars>>

\* router.get('/customers')
GetCustomers ==
    /\ resp' = [op |-> "GET /customers", req |-> NULL, status |-> 200,
                body |-> customers]
    /\ UNCHANGED <<dbVars, txVars, shutVars, jobVars>>

(***************************************************************************)
(* Records and expenses routes            src/unnamed/part_000 6-168       *)
(***************************************************************************)

\* A faulty table definition: payment_type has no CHECK constraint.
InsertLedgerUnchecked(t, cols, table, id, row) ==
    IF ~(cols \subseteq SchemaColumns(t))
    THEN [code |-> UndefinedColumn, row |-> NoRow]
    ELSE IF ~IsDateText(row.date)
    THEN [code |-> DatetimeFieldOverflow, row |-> NoRow]
    ELSE IF row.payment_type = NULL
    THEN [code |-> NotNullViolation, row |-> NoRow]
    ELSE [code |-> OK,
          row |-> [id |-> id] @@ [row EXCEPT !.date = DateIn(row.date)]]

\* INSERT INTO records / expenses (...) VALUES (...) RETURNING *: the
\* statement is analysed against the schema, the date parameter is converted
\* to DATE, then NOT NULL and the payment_type CHECK are applied to the row.
InsertLedger(t, cols, table, id, row) ==
    IF ~(cols \subseteq SchemaColumns(t))
    THEN [code |-> UndefinedColumn, row |-> NoRow]
    ELSE IF ~IsDateText(row.date)
    THEN [code |-> DatetimeFieldOverflow, row |-> NoRow]
    ELSE IF row.payment_type = NULL
    THEN [code |-> NotNullViolation, row |-> NoRow]
    ELSE IF row.payment_type \notin PaymentTypes
    THEN [code |-> CheckViolation, row |-> NoRow]
    ELSE [code |-> OK,
          row |-> [id |-> id] @@ [row EXCEPT !.date = DateIn(row.date)]]

\* catch (error) of POST /records and POST /expenses: every error is a 500.
LedgerCreateStatus(code) == IF code = OK THEN 200 ELSE 500

\* router.post('/records')
PostRecord(body) ==
    LET r == InsertLedger("records",
                          {"date", "customer_name", "service", "staff", "price",
                           "payment_type"},
                          records, seq.records, body)
    IN  /\ r.code = OK => Room("records")
        /\ records' = IF r.code = OK THEN records \cup {r.row} ELSE records
        /\ seq' = IF r.code = OK THEN [seq EXCEPT !.records = @ + 1] ELSE seq
        /\ resp' = [op |-> "POST /records", req |-> body, code |-> r.code,
                    status |-> LedgerCreateStatus(r.code), body |-> r.row]
        /\ UNCHANGED <<customers, services, staff, expense_types, expenses, txVars, shutVars, jobVars>>

\* router.post('/expenses')
PostExpense(body) ==
    LET r == InsertLedger("expenses",
                          {"date", "type", "description", "amount", "payment_type"},
                          expenses, seq.expenses, body)
    IN  /\ r.code = OK => Room("expenses")
        /\ expenses' = IF r.code = OK THEN expenses \cup {r.row} ELSE expenses
        /\ seq' = IF r.code = OK THEN [seq EXCEPT !.expenses = @ + 1] ELSE seq
        /\ resp' = [op |-> "POST /expenses", req |-> body, code |-> r.code,
                    status |-> LedgerCreateStatus(r.code), body |-> r.row]
        /\ UNCHANGED <<customers, services, staff, expense_types, records, txVars, shutVars, jobVars>>

\* SELECT * FROM <t> WHERE date = $1  (as a set of rows)
SelectOnDate(table, dateText) ==
    IF ~IsDateText(dateText)
    THEN [code |-> DatetimeFieldOverflow, rows |-> {}]
    ELSE [code |-> OK, rows |-> {r \in table : r.date = DateIn(dateText)}]

\* SELECT * FROM <t> WHERE date >= $1 AND date <= $2  (as a set of rows):
\* both parameters are converted to DATE before any row is compared.
SelectBetween(table, startText, endText) ==
    IF ~IsDateText(startText) \/ ~IsDateText(endText)
    THEN [code |-> DatetimeFieldOverflow, rows |-> {}]
    ELSE [code |-> OK,
          rows |-> {r \in table : /\ DateLE(DateIn(startText), r.date)
                                  /\ DateLE(r.date, DateIn(endText))}]

\* const startDate = `${year}-${month.padStart(2, '0')}-01`;
StartDate(year, month) == DateText(year, PadStart(month, 2, "0"), <<"0", "1">>)

\* const endDate = `${year}-${month.padStart(2, '0')}-31`;
EndDate(year, month) == DateText(year, PadStart(month, 2, "0"), <<"3", "1">>)

\* The response of a read route: the rows, or 500 when the query failed.
ReadResponse(op, req, r) ==
    [op |-> op, req |-> req, status |-> IF r.code = OK THEN 200 ELSE 500,
     body |-> r.rows]

\* router.get('/records/daily/:date')
GetRecordsDaily(dateText) ==
    /\ resp' = ReadResponse("GET /records/daily", dateText,
                            SelectOnDate(records, dateText))
    /\ UNCHANGED <<dbVars, txVars, shutVars, jobVars>>

\* router.get('/expenses/daily/:date')
GetExpensesDaily(dateText) ==
    /\ resp' = ReadResponse("GET /expenses/daily", dateText,
                            SelectOnDate(expenses, dateText))
    /\ UNCHANGED <<dbVars, txVars, shutVars, jobVars>>

\* router.get('/records/monthly/:year/:month')
GetRecordsMonthly(year, month) ==
    /\ resp' = ReadResponse("GET /records/monthly", [year |-> year, month |-> month],
                            SelectBetween(records, StartDate(year, month),
                                          EndDate(year, month)))
    /\ UNCHANGED <<dbVars, txVars, shutVars, jobVars>>

\* router.get('/expenses/monthly/:year/:month')
GetExpensesMonthly(year, month) ==
    /\ resp' = ReadResponse("GET /expenses/monthly", [year |-> year, month |-> month],
                            SelectBetween(expenses, StartDate(year, month),
                                          EndDate(year, month)))
    /\ UNCHANGED <<dbVars, txVars, shutVars, jobVars>>

\* A faulty DELETE: WHERE id <= $1 in place of WHERE id = $1.
TableWithoutUpTo(table, idText) ==
    {r \in table : r.id > NumeralVal(idText)}

\* DELETE FROM <t> WHERE id = $1 RETURNING *: the table left.
TableWithout(table, idText) == table \ RowsWithId(table, idText)

\* The response of a hard delete: 500 when the id is no integer, 404 when
\* the DELETE returned no row, else the deleted row.
HardDeleteResponse(op, table, idText) ==
    IF ~IsNumeral(idText)
    THEN [op |-> op, req |-> idText, status |-> 500, body |-> NoRow]
    ELSE IF RowsWithId(table, idText) = {}
    THEN [op |-> op, req |-> idText, status |-> 404, body |-> NoRow]
    ELSE [op |-> op, req |-> idText, status |-> 200,
          body |-> CHOOSE r \in RowsWithId(table, idText) : TRUE]

\* router.delete('/records/:id')
DeleteRecord(idText) ==
    /\ records' = IF IsNumeral(idText) THEN TableWithout(records, idText) ELSE records
    /\ resp' = HardDeleteResponse("DELETE /records/:id", records, idText)
    /\ UNCHANGED <<customers, services, staff, expense_types, expenses, seq, txVars, shutVars, jobVars>>

\* router.delete('/expenses/:id')
DeleteExpense(idText) ==
    /\ expenses' = IF IsNumeral(idText) THEN TableWithout(expenses, idText) ELSE expenses
    /\ resp' = HardDeleteResponse("DELETE /expenses/:id", expenses, idText)
    /\ UNCHANGED <<customers, services, staff, expense_types, records, seq, txVars, shutVars, jobVars>>

(***************************************************************************)
(* Reports                                src/unnamed/part_000 392-521     *)
(*                                                                         *)
(* The store returns COUNT and SUM(...) as text, and SUM over no rows   *)
(* as null; amounts are whole numbers here, written without decimals.      *)
(* The values the handler computes are JavaScript numbers, NaN among them. *)
(***************************************************************************)

\* A store failure that is not caused by the statement (connection lost).
ConnectionFailure == "08006"

DigitChar(d) == CHOOSE ch \in Digits : DigitVal(ch) = d

\* The text of a non-negative integer.
RECURSIVE NumeralOf(_)
NumeralOf(n) ==
    IF n < 10 THEN <<DigitChar(n)>>
    ELSE NumeralOf(n \div 10) \o <<DigitChar(n % 10)>>

\* A nullable text column of a result row.
SqlNull == [null |-> TRUE, text |-> <<>>]
SqlText(t) == [null |-> FALSE, text |-> t]

\* JavaScript numbers.
Num(n) == [nan |-> FALSE, val |-> n]
NaN == [nan |-> TRUE, val |-> 0]

\* parseInt(text)
ParseInt(t) == IF IsNumeral(t) THEN Num(NumeralVal(t)) ELSE NaN

\* parseFloat(cell): parseFloat(null) is NaN.
ParseFloat(cell) ==
    IF cell.null THEN NaN
    ELSE IF IsNumeral(cell.text) THEN Num(NumeralVal(cell.text)) ELSE NaN

\* A faulty coercion: the `|| 0` is left out.
OrZeroMissing(x) == x

\* x || 0: NaN and 0 are falsy.
OrZero(x) == IF x.nan \/ x.val = 0 THEN Num(0) ELSE x

\* a - b on JavaScript numbers
Minus(a, b) == IF a.nan \/ b.nan THEN NaN ELSE Num(a.val - b.val)

\* SUM(col) over a non-empty set of rows
RECURSIVE SumCol(_, _)
SumCol(rows, col) ==
    IF rows = {} THEN 0
    ELSE LET r == CHOOSE x \in rows : TRUE
         IN  r[col] + SumCol(rows \ {r}, col)

\* The rows WHERE date = $1 selects.
RowsOnDate(table, dateText) == {r \in table : r.date = DateIn(dateText)}

\* SELECT payment_type, COUNT as count, SUM(col) as total FROM <t>
\* WHERE date = $1 GROUP BY payment_type
GroupByPaymentType(table, col, dateText) ==
    IF ~IsDateText(dateText)
    THEN [code |-> DatetimeFieldOverflow, rows |-> {}]
    ELSE LET hit == RowsOnDate(table, dateText)
             Group(p) == {r \in hit : r.payment_type = p}
         IN  [code |-> OK,
              rows |-> {[payment_type |-> p,
                         count |-> NumeralOf(Cardinality(Group(p))),
                         total |-> SqlText(NumeralOf(SumCol(Group(p), col)))] :
                        p \in {r.payment_type : r \in hit}}]

\* A faulty total: the WHERE date = $1 is left out.
TotalOfTable(table, col, dateText) ==
    IF ~IsDateText(dateText)
    THEN [code |-> DatetimeFieldOverflow, rows |-> {}]
    ELSE [code |-> OK,
          rows |-> {[count |-> NumeralOf(Cardinality(table)),
                     total |-> IF table = {} THEN SqlNull
                               ELSE SqlText(NumeralOf(SumCol(table, col)))]}]

\* SELECT COUNT as count, SUM(col) as total FROM <t> WHERE date = $1:
\* always one row; the sum of no rows is null.
TotalOnDate(table, col, dateText) ==
    IF ~IsDateText(dateText)
    THEN [code |-> DatetimeFieldOverflow, rows |-> {}]
    ELSE LET hit == RowsOnDate(table, dateText)
         IN  [code |-> OK,
              rows |-> {[count |-> NumeralOf(Cardinality(hit)),
                         total |-> IF hit = {} THEN SqlNull
                                   ELSE SqlText(NumeralOf(SumCol(hit, col)))]}]

\* result.rows[0]
FirstRow(rows) == CHOOSE r \in rows : TRUE

\* A query of a report: the store may fail it for reasons of its own.
Failing(fail, r) == IF fail THEN [code |-> ConnectionFailure, rows |-> {}] ELSE r

\* const summary = { date, income: {...}, expenses: {...}, netProfit }
Summary(date, incomeRows, expenseRows, totalIncome, totalExpense) ==
    [date      |-> date,
     income    |-> [byPaymentType |-> incomeRows,
                    total |-> [count  |-> OrZero(ParseInt(totalIncome.count)),
                               amount |-> OrZero(ParseFloat(totalIncome.total))]],
     expenses  |-> [byPaymentType |-> expenseRows,
                    total |-> [count  |-> OrZero(ParseInt(totalExpense.count)),
                               amount |-> OrZero(ParseFloat(totalExpense.total))]],
     netProfit |-> Minus(OrZero(ParseFloat(totalIncome.total)),
                         OrZero(ParseFloat(totalExpense.total)))]

\* res.status(500).json({ error: ... }) of a report's catch block
ReportFailure(op, req, code, message) ==
    [op |-> op, req |-> req, code |-> code, status |-> 500,
     body |-> [error |-> message]]

\* res.json(...) of a report
ReportAnswer(op, req, body) ==
    [op |-> op, req |-> req, code |-> OK, status |-> 200, body |-> body]

DailySummaryOp == "GET /reports/daily-summary"

DailySummaryFailed == "Failed to generate daily summary"

\* No report request is in flight; `sent` counts the responses sent to the
\* request handled last.
ReportIdle == [pc |-> "idle", sent |-> 0]
ReportInFlight == report.pc # "idle"

\* The handler has sent its response and is over.
ReportEnds == [pc |-> "idle", sent |-> report.sent + 1]

\* catch (error) of the daily summary
SummaryFails(code) ==
    /\ resp' = ReportFailure(DailySummaryOp, report.date, code, DailySummaryFailed)
    /\ report' = ReportEnds

\* router.get('/reports/daily-summary/:date'), up to the first await: the
\* income by payment type.
SummaryIncomeByType(date, fail) ==
    /\ report.pc = "idle"
    /\ LET r == Failing(fail, GroupByPaymentType(records, "price", date))
       IN  IF r.code = OK
           THEN /\ report' = [pc |-> "expenseByType", sent |-> 0, date |-> date,
                              income |-> r.rows]
                /\ UNCHANGED resp
           ELSE /\ resp' = ReportFailure(DailySummaryOp, date, r.code,
                                         DailySummaryFailed)
                /\ report' = [pc |-> "idle", sent |-> 1]
    /\ UNCHANGED <<dbVars, txVars, shutVars, setup, built>>

\* A faulty second query: its failure is swallowed and the report goes on
\* with no expense groups.
SummaryExpenseByTypeSwallowed(fail) ==
    /\ report.pc = "expenseByType"
    /\ LET r == Failing(fail, GroupByPaymentType(expenses, "amount", report.date))
       IN  /\ report' = [expense |-> r.rows] @@ [report EXCEPT !.pc = "totalIncome"]
           /\ UNCHANGED resp
    /\ UNCHANGED <<dbVars, txVars, shutVars, setup, built>>

\* the second query: the expenses by payment type
SummaryExpenseByType(fail) ==
    /\ report.pc = "expenseByType"
    /\ LET r == Failing(fail, GroupByPaymentType(expenses, "amount", report.date))
       IN  IF r.code = OK
           THEN /\ report' = [expense |-> r.rows] @@ [report EXCEPT !.pc = "totalIncome"]
                /\ UNCHANGED resp
           ELSE SummaryFails(r.code)
    /\ UNCHANGED <<dbVars, txVars, shutVars, setup, built>>

\* the third query: the total income
SummaryTotalIncome(fail) ==
    /\ report.pc = "totalIncome"
    /\ LET r == Failing(fail, TotalOnDate(records, "price", report.date))
       IN  IF r.code = OK
           THEN /\ report' = [totalIncome |-> FirstRow(r.rows)]
                                 @@ [report EXCEPT !.pc = "totalExpense"]
                /\ UNCHANGED resp
           ELSE SummaryFails(r.code)
    /\ UNCHANGED <<dbVars, txVars, shutVars, setup, built>>

\* the fourth query (the total expenses), the summary and res.json(summary)
SummaryTotalExpense(fail) ==
    /\ report.pc = "totalExpense"
    /\ LET r == Failing(fail, TotalOnDate(expenses, "amount", report.date))
       IN  IF r.code = OK
           THEN /\ resp' = ReportAnswer(DailySummaryOp, report.date,
                                        Summary(report.date, report.income,
                                                report.expense, report.totalIncome,
                                                FirstRow(r.rows)))
                /\ report' = ReportEnds
           ELSE SummaryFails(r.code)
    /\ UNCHANGED <<dbVars, txVars, shutVars, setup, built>>

\* The rows WHERE date >= $1 AND date <= $2 AND <col> IS NOT NULL selects.
RowsBetween(table, startText, endText, col) ==
    {r \in table : /\ DateLE(DateIn(startText), r.date)
                   /\ DateLE(r.date, DateIn(endText))
                   /\ r[col] # NULL}

\* MIN(col) / MAX(col) over a non-empty set of rows
MinCol(rows, col) == CHOOSE v \in {r[col] : r \in rows} : \A r \in rows : v <= r[col]
MaxCol(rows, col) == CHOOSE v \in {r[col] : r \in rows} : \A r \in rows : v >= r[col]

\* SELECT staff, COUNT, SUM(price), AVG(price), array_agg(DISTINCT service)
\* FROM records WHERE ... GROUP BY staff.  The average is kept as the pair
\* of the sum and the count it divides.
StaffPerformanceRows(startText, endText) ==
    IF ~IsDateText(startText) \/ ~IsDateText(endText)
    THEN [code |-> DatetimeFieldOverflow, rows |-> {}]
    ELSE LET hit == RowsBetween(records, startText, endText, "staff")
             Group(s) == {r \in hit : r.staff = s}
         IN  [code |-> OK,
              rows |-> {[staff |-> s,
                         service_count |-> NumeralOf(Cardinality(Group(s))),
                         total_revenue |-> NumeralOf(SumCol(Group(s), "price")),
                         average_price |-> <<SumCol(Group(s), "price"),
                                             Cardinality(Group(s))>>,
                         services_provided |-> {r.service : r \in Group(s)}] :
                        s \in {r.staff : r \in hit}}]

\* SELECT service, COUNT, SUM(price), AVG(price), MIN(price), MAX(price)
\* FROM records WHERE ... GROUP BY service
ServiceAnalysisRows(startText, endText) ==
    IF ~IsDateText(startText) \/ ~IsDateText(endText)
    THEN [code |-> DatetimeFieldOverflow, rows |-> {}]
    ELSE LET hit == RowsBetween(records, startText, endText, "service")
             Group(s) == {r \in hit : r.service = s}
         IN  [code |-> OK,
              rows |-> {[service |-> s,
                         count |-> NumeralOf(Cardinality(Group(s))),
                         total_revenue |-> NumeralOf(SumCol(Group(s), "price")),
                         average_price |-> <<SumCol(Group(s), "price"),
                                             Cardinality(Group(s))>>,
                         min_price |-> NumeralOf(MinCol(Group(s), "price")),
                         max_price |-> NumeralOf(MaxCol(Group(s), "price"))] :
                        s \in {r.service : r \in hit}}]

StaffPerformanceOp == "GET /reports/staff-performance"
ServiceAnalysisOp == "GET /reports/service-analysis"

\* The response of a report made of one query.
RangeReportResponse(op, req, r, message) ==
    IF r.code = OK THEN ReportAnswer(op, req, r.rows)
    ELSE ReportFailure(op, req, r.code, message)

\* router.get('/reports/staff-performance/:startDate/:endDate')
GetStaffPerformance(startText, endText, fail) ==
    /\ resp' = RangeReportResponse(StaffPerformanceOp,
                                   [startDate |-> startText, endDate |-> endText],
                                   Failing(fail, StaffPerformanceRows(startText, endText)),
                                   "Failed to generate staff performance report")
    /\ UNCHANGED <<dbVars, txVars, shutVars, jobVars>>

\* router.get('/reports/service-analysis/:startDate/:endDate')
GetServiceAnalysis(startText, endText, fail) ==
    /\ resp' = RangeReportResponse(ServiceAnalysisOp,
                                   [startDate |-> startText, endDate |-> endText],
                                   Failing(fail, ServiceAnalysisRows(startText, endText)),
                                   "Failed to generate service analysis")
    /\ UNCHANGED <<dbVars, txVars, shutVars, jobVars>>

(***************************************************************************)
(* Requests of the model.                                                  *)
(***************************************************************************)

Year2024 == <<"2", "0", "2", "4">>
Jan31 == DateText(Year2024, <<"0", "1">>, <<"3", "1">>)
Feb29 == DateText(Year2024, <<"0", "2">>, <<"2", "9">>)
Feb30 == DateText(Year2024, <<"0", "2">>, <<"3", "0">>)

RecordBody(date, price, payment_type) ==
    [date |-> date, customer_name |-> "Ali", service |-> "Sac", staff |-> "Ufuk",
     price |-> price, payment_type |-> payment_type]

ExpenseBody(date, amount, payment_type) ==
    [date |-> date, type |-> "Kira", description |-> NULL,
     amount |-> amount, payment_type |-> payment_type]

CustomerInputs == {[name |-> n, phone |-> "555", email |-> NULL] : n \in NameInputs}
ServiceInputs == {[name |-> n, default_price |-> NULL] : n \in NameInputs}
StaffInputs == {[name |-> n] : n \in NameInputs}

RecordInputs ==
    {RecordBody(Feb29, 100, "Nakit"), RecordBody(Feb29, 50, "Kart"),
     RecordBody(Jan31, 100, "Banka"),
     RecordBody(Feb29, 100, "Cash"), RecordBody(Feb30, 100, "Nakit")}

ExpenseInputs ==
    {ExpenseBody(Feb29, 30, "Kart"), ExpenseBody(Jan31, 20, "Nakit"),
     ExpenseBody(Feb29, 30, NULL), ExpenseBody(Feb29, 30, "Cash")}

DateInputs == {Feb29, Feb30}
MonthInputs == {<<"1">>, <<"2">>, <<"0", "2">>}
LedgerIdInputs == {<<"1">>, <<"2">>, <<"a">>}

\* The one record and the one expense the reference-data runs add.
RefRecordInputs == {RecordBody(Feb29, 100, "Nakit")}
RefExpenseInputs == {ExpenseBody(Feb29, 30, "Kart")}

RefNext ==
    \/ \E b \in CustomerInputs : PostCustomer(b)
    \/ \E b \in ServiceInputs : PostService(b)
    \/ \E b \in StaffInputs : PostStaff(b)
    \/ \E i \in IdInputs : DeleteService(i)
    \/ \E i \in IdInputs : DeleteStaff(i)
    \/ \E f \in FlagInputs : GetServices(f)
    \/ \E f \in FlagInputs : GetStaff(f)
    \/ \E f \in FlagInputs : GetExpenseTypes(f)
    \/ GetCustomers
    \/ \E b \in RefRecordInputs : PostRecord(b)
    \/ \E b \in RefExpenseInputs : PostExpense(b)

\* The requests made during setupDatabase().
SetupStaffInputs == {[name |-> "Ufuk"]}
SetupIdInputs == {<<"1">>}

\* The requests of the report runs.
ReportRecordInputs == {RecordBody(Feb29, 100, "Nakit"), RecordBody(Feb29, 50, "Kart")}
ReportExpenseInputs == {ExpenseBody(Feb29, 30, "Kart"), ExpenseBody(Jan31, 20, "Nakit")}
ReportDateInputs == {Jan31, Feb29, Feb30}
ReportRangeInputs == {<<Jan31, Feb29>>, <<Feb29, Feb30>>}
ReportIdInputs == {<<"1">>}

LedgerNext ==
    \/ \E b \in RecordInputs : PostRecord(b)
    \/ \E b \in ExpenseInputs : PostExpense(b)
    \/ \E d \in DateInputs : GetRecordsDaily(d)
    \/ \E d \in DateInputs : GetExpensesDaily(d)
    \/ \E m \in MonthInputs : GetRecordsMonthly(Year2024, m)
    \/ \E m \in MonthInputs : GetExpensesMonthly(Year2024, m)
    \/ \E i \in LedgerIdInputs : DeleteRecord(i)
    \/ \E i \in LedgerIdInputs : DeleteExpense(i)

\* The writes of records and expenses.
ReportWrites ==
    \/ \E b \in ReportRecordInputs : PostRecord(b)
    \/ \E b \in ReportExpenseInputs : PostExpense(b)
    \/ \E i \in ReportIdInputs : DeleteRecord(i)
    \/ \E i \in ReportIdInputs : DeleteExpense(i)

\* The steps of the daily summary.
SummarySteps ==
    \/ \E d \in ReportDateInputs, fail \in BOOLEAN : SummaryIncomeByType(d, fail)
    \/ \E fail \in BOOLEAN : SummaryExpenseByType(fail)
    \/ \E fail \in BOOLEAN : SummaryTotalIncome(fail)
    \/ \E fail \in BOOLEAN : SummaryTotalExpense(fail)

\* The reports, with no write while a daily summary is in flight.
ReportNext ==
    \/ ~ReportInFlight /\ ReportWrites
    \/ SummarySteps
    \/ \E r \in ReportRangeInputs, fail \in BOOLEAN : GetStaffPerformance(r[1], r[2], fail)
    \/ \E r \in ReportRangeInputs, fail \in BOOLEAN : GetServiceAnalysis(r[1], r[2], fail)

\* The daily summary with writes between its queries.
ConcurrentNext ==
    \/ ReportWrites
    \/ SummarySteps

(***************************************************************************)
(* setupDatabase()                          src/setupDatabase.js 10-171    *)
(*                                                                         *)
(* One run at a time; every statement of a run may fail, which ends the    *)
(* run through the catch block.  The API may write between two statements. *)
(***************************************************************************)

\* Runs of setupDatabase() modelled.
MaxRuns == 2

\* The tables seeded, in the order of the code.
SeedTables == <<"services", "staff", "expense_types">>

DefaultsOf(t) ==
    CASE t = "services" -> DefaultServices
      [] t = "staff" -> DefaultStaff
      [] t = "expense_types" -> DefaultExpenseTypes

TableOf(t) ==
    CASE t = "services" -> services
      [] t = "staff" -> staff
      [] t = "expense_types" -> expense_types

\* No run is under way; `runs` and `completed` count the runs started and
\* the runs that reached the end of the try block.
SetupIdle == [pc |-> "idle", t |-> 1, i |-> 1, count |-> <<"0">>,
              runs |-> 0, completed |-> 0]

\* The database of a run that got as far as the CREATE TABLE statements.
DbCreated ==
    /\ customers = {} /\ services = {} /\ staff = {} /\ expense_types = {}
    /\ records = {} /\ expenses = {}
    /\ seq = [t \in DOMAIN InitialSeq |-> 1]

\* catch (error) { throw error } finally { client.release(); pool.end() }
SetupAborted == [setup EXCEPT !.pc = "idle"]

\* const client = await pool.connect();
SetupConnect(ok) ==
    /\ setup.pc = "idle" /\ setup.runs < MaxRuns
    /\ setup' = [setup EXCEPT !.runs = @ + 1, !.pc = IF ok THEN "tables" ELSE "idle"]
    /\ UNCHANGED <<dbVars, resp, txVars, shutVars, report, built>>

\* CREATE TABLE IF NOT EXISTS ... (six tables): the tables exist already.
SetupCreateTables(ok) ==
    /\ setup.pc = "tables"
    /\ setup' = IF ok THEN [setup EXCEPT !.pc = "indexes"] ELSE SetupAborted
    /\ UNCHANGED <<dbVars, resp, txVars, shutVars, report, built>>

\* CREATE INDEX IF NOT EXISTS ...; then the first SELECT COUNT is next.
SetupCreateIndexes(ok) ==
    /\ setup.pc = "indexes"
    /\ setup' = IF ok THEN [setup EXCEPT !.pc = "count", !.t = 1] ELSE SetupAborted
    /\ UNCHANGED <<dbVars, resp, txVars, shutVars, report, built>>

\* A faulty test: the defaults are inserted whatever the count is.
AnyCount(count) == TRUE

\* parseInt(servicesCount.rows[0].count) === 0
CountIsZero(count) == ParseInt(count) = Num(0)

\* Past the seeding of table number t: the next table's count, or the end of
\* the try block and the finally.
SetupPast(t) ==
    IF t < Len(SeedTables)
    THEN [setup EXCEPT !.pc = "count", !.t = t + 1]
    ELSE [setup EXCEPT !.pc = "idle", !.completed = @ + 1]

\* const servicesCount = await client.query('SELECT COUNT FROM services');
\* if (parseInt(servicesCount.rows[0].count) === 0) { ... }
\* and the same for staff and expense_types.
SetupCount(ok) ==
    /\ setup.pc = "count"
    /\ LET count == NumeralOf(Cardinality(TableOf(SeedTables[setup.t])))
       IN  setup' = IF ~ok THEN SetupAborted
                    ELSE IF CountIsZero(count)
                    THEN [setup EXCEPT !.pc = "insert", !.i = 1, !.count = count]
                    ELSE [SetupPast(setup.t) EXCEPT !.count = count]
    /\ UNCHANGED <<dbVars, resp, txVars, shutVars, report, built>>

\* INSERT INTO <t> (name, active) VALUES ($1, true) ON CONFLICT (name) DO
\* NOTHING: the table after it.  The id is drawn from the sequence first.
InsertDefault(table, id, name) ==
    IF \E r \in table : r.name = name THEN table
    ELSE table \cup {[id |-> id, name |-> name, active |-> TRUE]}

\* for (const service of defaultServices) { await client.query(INSERT ...) }
\* one turn of the loop, for the table being seeded.
SetupInsert(ok) ==
    /\ setup.pc = "insert"
    /\ LET t == SeedTables[setup.t]
           names == DefaultsOf(t)
           after == IF ok THEN InsertDefault(TableOf(t), seq[t], names[setup.i])
                    ELSE TableOf(t)
       IN  /\ services' = IF t = "services" THEN after ELSE services
           /\ staff' = IF t = "staff" THEN after ELSE staff
           /\ expense_types' = IF t = "expense_types" THEN after ELSE expense_types
           /\ seq' = IF ok THEN [seq EXCEPT ![t] = @ + 1] ELSE seq
           /\ setup' = IF ~ok THEN SetupAborted
                       ELSE IF setup.i < Len(names) THEN [setup EXCEPT !.i = @ + 1]
                       ELSE SetupPast(setup.t)
    /\ UNCHANGED <<customers, records, expenses, resp, txVars, shutVars, report, built>>

\* A run of setupDatabase(), with the staff and services routes of the API
\* writing in between.
SetupNext ==
    \/ \E ok \in BOOLEAN : SetupConnect(ok)
    \/ \E ok \in BOOLEAN : SetupCreateTables(ok)
    \/ \E ok \in BOOLEAN : SetupCreateIndexes(ok)
    \/ \E ok \in BOOLEAN : SetupCount(ok)
    \/ \E ok \in BOOLEAN : SetupInsert(ok)
    \/ \E b \in SetupStaffInputs : PostStaff(b)
    \/ \E i \in SetupIdInputs : DeleteStaff(i)
    \/ \E i \in SetupIdInputs : DeleteService(i)

(***************************************************************************)
(* The statement builders of src/db.js: update (155-173) and               *)
(* buildWhereClause (391-400).                                             *)
(*                                                                         *)
(* An object is the sequence of its entries in the order Object.keys,      *)
(* Object.values and Object.entries give them.  A clause is the sequence   *)
(* of its terms, each the column, the form of the term and the number of   *)
(* the placeholder written in it (0 when it has none).                     *)
(***************************************************************************)

\* Entries of an object passed to a builder.
MaxCols == 2

\* JavaScript values an entry may hold.
JsNull == [type |-> "null", v |-> ""]
JsString(s) == [type |-> "string", v |-> s]
JsArray(s) == [type |-> "array", v |-> s]

BuilderColumns == {"id", "name", "active"}
BuilderValues == {JsString("x"), JsArray("y,z"), JsNull}

\* The objects with at most MaxCols entries (the keys of an object differ).
Objects ==
    UNION {{o \in [1..n -> BuilderColumns \X BuilderValues] :
               \A i, j \in 1..n : o[i][1] = o[j][1] => i = j} : n \in 0..MaxCols}

Term(col, form, ph) == [col |-> col, form |-> form, ph |-> ph]

\* A faulty WHERE clause: its placeholders are numbered from 1 again.
WhereTermsFromOne(where, n) ==
    [i \in DOMAIN where |-> Term(where[i][1], "=", i)]

\* whereColumns.map((col, i) => `${col} = $${dataValues.length + i + 1}`)
\* (i counts from 0 in the code, from 1 here)
WhereTerms(where, n) ==
    [i \in DOMAIN where |-> Term(where[i][1], "=", n + i)]

\* dataColumns.map((col, i) => `${col} = $${i + 1}`), followed by
\* updated_at = CURRENT_TIMESTAMP
SetTerms(data) ==
    [i \in DOMAIN data |-> Term(data[i][1], "=", i)]
        \o <<Term("updated_at", "= CURRENT_TIMESTAMP", 0)>>

\* Object.values(o)
ValuesOf(o) == [i \in DOMAIN o |-> o[i][2]]

\* The arguments of the calls: <<data, where>> of update, <<conditions>> of
\* buildWhereClause.
BuilderCalls ==
    {<<data, where>> : data \in Objects, where \in Objects}
        \cup {<<conditions>> : conditions \in Objects}

\* A call about to be made.
NotBuilt(args) == [fn |-> "none", args |-> args]

\* update(table, data, where): the statement and the parameters it hands
\* to query().
Update ==
    /\ built.fn = "none" /\ Len(built.args) = 2
    /\ LET data == built.args[1]
           where == built.args[2]
       IN  built' = [fn |-> "update", data |-> data, where |-> where,
                     set |-> SetTerms(data),
                     clause |-> WhereTerms(where, Len(ValuesOf(data))),
                     values |-> ValuesOf(data) \o ValuesOf(where)]
    /\ UNCHANGED <<dbVars, resp, txVars, shutVars, report, setup>>

\* entries.map(([key, value], i) => ...) of buildWhereClause
ConditionTerms(conditions) ==
    [i \in DOMAIN conditions |->
        IF conditions[i][2] = JsNull THEN Term(conditions[i][1], "IS NULL", 0)
        ELSE IF conditions[i][2].type = "array"
        THEN Term(conditions[i][1], "= ANY", i)
        ELSE Term(conditions[i][1], "=", i)]

\* entries.map(([_, value]) => value).filter(v => v !== null)
NonNullValues(conditions) ==
    SelectSeq(ValuesOf(conditions), LAMBDA v : v # JsNull)

\* buildWhereClause(conditions): { clause, values }
BuildWhereClause ==
    /\ built.fn = "none" /\ Len(built.args) = 1
    /\ LET conditions == built.args[1]
       IN  built' = [fn |-> "buildWhereClause", where |-> conditions,
                     clause |-> ConditionTerms(conditions),
                     values |-> NonNullValues(conditions)]
    /\ UNCHANGED <<dbVars, resp, txVars, shutVars, report, setup>>

BuildNext ==
    \/ Update
    \/ BuildWhereClause

(***************************************************************************)
(* Process lifecycle: the signal handlers of src/db.js (346-357) and of    *)
(* src/app.js (90-116), the HTTP server and the shared pool.               *)
(*                                                                         *)
(* app.js requires ./db before it registers its own listeners, so for one  *)
(* signal the listener of db.js runs first and gracefulShutdown second, in *)
(* the same turn of the event loop.  pool.end() marks the pool as ending:  *)
(* from then on it hands out no client, and it is ended once the clients   *)
(* still running a query have come back; a later pool.end() fails at once. *)
(* server.close(cb) stops the server accepting and calls cb once no        *)
(* request is left.                                                        *)
(***************************************************************************)

\* Requests in flight at once.
MaxInflight == 3

\* Signals and uncaught exceptions delivered to the process.
MaxEvents == 2

Signals == {"SIGTERM", "SIGINT"}

ShutInit ==
    /\ server = "listening"
    /\ handling = 0
    /\ querying = 0
    /\ pool = "open"
    /\ endCalls = 0
    /\ endWaiter = "none"
    /\ closeCbs = 0
    /\ forceTimer = FALSE
    /\ events = 0
    /\ proc = "running"

\* A request is accepted by the listening server and its handler starts.
RequestArrives ==
    /\ proc = "running" /\ server = "listening"
    /\ handling + querying < MaxInflight
    /\ handling' = handling + 1
    /\ UNCHANGED <<server, querying, pool, endCalls, endWaiter, closeCbs,
                   forceTimer, events, proc, txVars, dbVars, resp, jobVars>>

\* db.query(): pool.query() takes a client of an open pool; on a pool that
\* is ending it rejects, and the handler's catch sends the 500.
RequestQueries ==
    /\ proc = "running" /\ handling > 0
    /\ IF pool = "open"
       THEN handling' = handling - 1 /\ querying' = querying + 1
       ELSE handling' = handling - 1 /\ UNCHANGED querying
    /\ UNCHANGED <<server, pool, endCalls, endWaiter, closeCbs, forceTimer,
                   events, proc, txVars, dbVars, resp, jobVars>>

\* The query returns, its client goes back to the pool and the response is
\* sent.
RequestFinishes ==
    /\ proc = "running" /\ querying > 0
    /\ querying' = querying - 1
    /\ UNCHANGED <<server, handling, pool, endCalls, endWaiter, closeCbs,
                   forceTimer, events, proc, txVars, dbVars, resp, jobVars>>

\* pool.end() called by `who`: the first call starts ending the pool and
\* waits for it; every later call fails.
PoolAfterEnd == IF pool = "open" THEN "ending" ELSE pool
WaiterAfterEnd(who) == IF pool = "open" THEN who ELSE endWaiter

\* server.close(cb) of gracefulShutdown: no new requests from now on.
ServerAfterClose == IF server = "listening" THEN "closing" ELSE server

\* SIGTERM / SIGINT: process.on(sig) of db.js runs closePool() up to its
\* await pool.end(), then gracefulShutdown() of app.js runs server.close(cb)
\* and arms the 10 s timer.
Signal(sig) ==
    /\ proc = "running" /\ events < MaxEvents
    /\ events' = events + 1
    /\ endCalls' = endCalls + 1
    /\ pool' = PoolAfterEnd
    /\ endWaiter' = WaiterAfterEnd("db")
    /\ server' = ServerAfterClose
    /\ closeCbs' = closeCbs + 1
    /\ forceTimer' = TRUE
    /\ UNCHANGED <<handling, querying, proc, txVars, dbVars, resp, jobVars>>

\* process.on('uncaughtException'): gracefulShutdown() alone.
UncaughtException ==
    /\ proc = "running" /\ events < MaxEvents
    /\ events' = events + 1
    /\ server' = ServerAfterClose
    /\ closeCbs' = closeCbs + 1
    /\ forceTimer' = TRUE
    /\ UNCHANGED <<pool, endCalls, endWaiter, handling, querying, proc,
                   txVars, dbVars, resp, jobVars>>

\* The server's 'close' event: every callback given to server.close() runs
\* db.pool.end(cb).  On an open pool the first of them starts ending it; a
\* pool.end() on a pool already ending calls cb at once, and cb exits.
ServerClosed ==
    /\ proc = "running" /\ server = "closing"
    /\ handling + querying = 0
    /\ closeCbs > 0
    /\ server' = "closed"
    /\ closeCbs' = 0
    /\ pool' = PoolAfterEnd
    /\ endWaiter' = WaiterAfterEnd("app")
    /\ endCalls' = endCalls + (IF pool = "open" /\ closeCbs > 1 THEN 2 ELSE 1)
    /\ proc' = IF pool = "open" /\ closeCbs = 1 THEN proc ELSE "exit0"
    /\ UNCHANGED <<handling, querying, forceTimer, events, txVars, dbVars, resp, jobVars>>

\* The last client is back: the pool is ended and the first caller of
\* pool.end() goes on to process.exit(0).
PoolDrains ==
    /\ proc = "running" /\ pool = "ending" /\ querying = 0
    /\ pool' = "ended"
    /\ proc' = "exit0"
    /\ UNCHANGED <<server, handling, querying, endCalls, endWaiter, closeCbs,
                   forceTimer, events, txVars, dbVars, resp, jobVars>>

\* setTimeout(..., 10000) of gracefulShutdown: process.exit(1).
ForcedShutdown ==
    /\ proc = "running" /\ forceTimer
    /\ proc' = "exit1"
    /\ UNCHANGED <<server, handling, querying, pool, endCalls, endWaiter,
                   closeCbs, forceTimer, events, txVars, dbVars, resp, jobVars>>

ShutdownNext ==
    \/ RequestArrives
    \/ RequestQueries
    \/ RequestFinishes
    \/ \E sig \in Signals : Signal(sig)
    \/ UncaughtException
    \/ ServerClosed
    \/ PoolDrains
    \/ ForcedShutdown

(***************************************************************************)
(* Specifications.                                                         *)
(***************************************************************************)

\* No call of transaction() is under way.
TxIdle ==
    /\ tx = <<>>
    /\ checkedOut = 0

\* The tables are not looked at.
DbIdle ==
    /\ customers = {} /\ services = {} /\ staff = {} /\ expense_types = {}
    /\ records = {} /\ expenses = {}
    /\ seq = InitialSeq

\* No report request, no run of setupDatabase(), no statement built.
JobIdle ==
    /\ report = ReportIdle
    /\ setup = SetupIdle
    /\ built = NotBuilt(<<>>)

InitTx == TxInit /\ DbIdle /\ RespInit /\ ShutInit /\ JobIdle
InitRef == TxIdle /\ DbInit /\ RespInit /\ ShutInit /\ JobIdle
InitLedger == TxIdle /\ DbInit /\ RespInit /\ ShutInit /\ JobIdle
InitShutdown == TxIdle /\ DbIdle /\ RespInit /\ ShutInit /\ JobIdle
InitReport == TxIdle /\ DbInit /\ RespInit /\ ShutInit /\ JobIdle
InitSetup == TxIdle /\ DbCreated /\ RespInit /\ ShutInit /\ JobIdle
\* A call of update or of buildWhereClause is about to be made.
BuildInit ==
    /\ report = ReportIdle
    /\ setup = SetupIdle
    /\ \E args \in BuilderCalls : built = NotBuilt(args)

InitBuild == TxIdle /\ DbIdle /\ RespInit /\ ShutInit /\ BuildInit

SpecTx == InitTx /\ [][TxNext]_vars
SpecRef == InitRef /\ [][RefNext]_vars
SpecLedger == InitLedger /\ [][LedgerNext]_vars
SpecShutdown == InitShutdown /\ [][ShutdownNext]_vars
SpecReport == InitReport /\ [][ReportNext]_vars
SpecConcurrent == InitReport /\ [][ConcurrentNext]_vars
SpecSetup == InitSetup /\ [][SetupNext]_vars
SpecBuild == InitBuild /\ [][BuildNext]_vars

(***************************************************************************)
(* Properties of the reference-data routes (checked under SpecRef).        *)
(***************************************************************************)

NamePresent(table, name) == \E r \in table : r.name = name

\* C4: POST /services with a name not yet in the services table adds
\* exactly one services row with that name and active = true and responds
\* 200 with the created row.
PostServiceCreatesRow ==
    [][(/\ resp'.op = "POST /services"
        /\ resp'.req.name # NULL
        /\ ~NamePresent(services, resp'.req.name))
       => /\ resp'.status = 200
          /\ \E row \in services' :
                /\ row \notin services
                /\ services' = services \cup {row}
                /\ row.name = resp'.req.name
                /\ row.active = TRUE
                /\ resp'.body = row]_vars

\* A create request whose name is already in the table is answered 400 and
\* leaves the table as it was.
DuplicateRejected(op, before, after, r) ==
    (r.op = op /\ NamePresent(before, r.req.name)) =>
        (r.status = 400 /\ after = before)

\* C5: for customers, services and staff alike, a create request with the
\* name of an existing row is answered 400 (never 500) and the table holds
\* the same rows afterwards.
DuplicateCreateIs400 ==
    [][/\ DuplicateRejected("POST /customers", customers, customers', resp')
       /\ DuplicateRejected("POST /services", services, services', resp')
       /\ DuplicateRejected("POST /staff", staff, staff', resp')]_vars

\* A soft delete of an existing id answers 200 with the row, now inactive,
\* and replaces that row alone; the table keeps its number of rows.
SoftDeleteEffect(op, before, after, r) ==
    (r.op = op /\ IsNumeral(r.req) /\ RowsWithId(before, r.req) # {}) =>
        \E row \in before :
            /\ row.id = NumeralVal(r.req)
            /\ r.status = 200
            /\ r.body = [row EXCEPT !.active = FALSE]
            /\ after = (before \ {row}) \cup {[row EXCEPT !.active = FALSE]}
            /\ Cardinality(after) = Cardinality(before)

\* A list response holds exactly the rows of the table that are active, or
\* all rows when includeInactive=true was given.
ListAnswer(op, table, r) ==
    r.op = op =>
        /\ r.status = 200
        /\ \A row \in table : row \in r.body <=> (r.req = "true" \/ row.active)
        /\ r.body \subseteq table

\* An inactive row stays in the table, inactive.
StaysInactive(before, after) == \A row \in before : ~row.active => row \in after

SoftDeleteOps == {"DELETE /services/:id", "DELETE /staff/:id"}

\* C10: a soft delete of a service or staff member with an existing id sets
\* that row's active to false and changes nothing else: the table keeps its
\* row count, the other tables (records and expenses among them) are
\* unchanged, and from then on the row is missing from the default list and
\* present in the list with includeInactive=true.
SoftDeleteOnlyDeactivates ==
    [][/\ SoftDeleteEffect("DELETE /services/:id", services, services', resp')
       /\ SoftDeleteEffect("DELETE /staff/:id", staff, staff', resp')
       /\ resp'.op \in SoftDeleteOps =>
              /\ records' = records /\ expenses' = expenses
              /\ customers' = customers /\ expense_types' = expense_types
              /\ seq' = seq
       /\ resp'.op = "DELETE /services/:id" => staff' = staff
       /\ resp'.op = "DELETE /staff/:id" => services' = services
       /\ StaysInactive(services, services') /\ StaysInactive(staff, staff')
       /\ ListAnswer("GET /services", services', resp')
       /\ ListAnswer("GET /staff", staff', resp')]_vars

\* C10 witness: with a record and an expense stored, a deactivated service is
\* in the table but not in the default list just returned.
SoftDeletedServiceHidden ==
    /\ resp.op = "GET /services" /\ resp.req # "true" /\ resp.status = 200
    /\ \E row \in services : ~row.active /\ row \notin resp.body
    /\ \E row \in staff : ~row.active
    /\ Cardinality(services) = Len(DefaultServices)
    /\ records # {} /\ expenses # {}

(***************************************************************************)
(* Properties of the records / expenses routes (checked under SpecLedger). *)
(***************************************************************************)

\* The rows of a table dated in the month of a monthly request.
RowsOfMonth(table, req) ==
    {r \in table : /\ r.date[1] = NumeralVal(req.year)
                   /\ r.date[2] = NumeralVal(req.month)}

\* C6: a monthly query, also for a month with fewer than 31 days such as
\* 2024-02, responds 200 with exactly the stored rows dated in that month.
MonthlyQueryReturnsMonth ==
    /\ resp.op = "GET /records/monthly" =>
           (resp.status = 200 /\ resp.body = RowsOfMonth(records, resp.req))
    /\ resp.op = "GET /expenses/monthly" =>
           (resp.status = 200 /\ resp.body = RowsOfMonth(expenses, resp.req))

\* C7: POST /records or POST /expenses whose payment_type is outside the
\* three allowed tokens (a constraint failure of the store) responds 400.
ConstraintFailureIs400 ==
    (/\ resp.op \in {"POST /records", "POST /expenses"}
     /\ IsDateText(resp.req.date)
     /\ resp.req.payment_type \notin PaymentTypes)
    => resp.status = 400

\* A hard delete by an integer id: 404 and the table unchanged when no row
\* has the id; else 200 with that row, and that row alone is removed.
HardDeleteEffect(op, before, after, r) ==
    (r.op = op /\ IsNumeral(r.req)) =>
        LET hit == {row \in before : row.id = NumeralVal(r.req)}
        IN  /\ hit = {} => (r.status = 404 /\ after = before)
            /\ hit # {} =>
                   /\ r.status = 200
                   /\ hit = {r.body}
                   /\ after = before \ {r.body}
                   /\ Cardinality(after) = Cardinality(before) - 1

\* C9: DELETE /records/:id and DELETE /expenses/:id answer 404 and change
\* nothing when no row has the id; otherwise they answer with exactly that
\* row, remove that row and only that row, and leave the other table alone.
HardDeleteRemovesOneRow ==
    [][/\ HardDeleteEffect("DELETE /records/:id", records, records', resp')
       /\ HardDeleteEffect("DELETE /expenses/:id", expenses, expenses', resp')
       /\ resp'.op = "DELETE /records/:id" => expenses' = expenses
       /\ resp'.op = "DELETE /expenses/:id" => records' = records]_vars

\* C9 witness: a record was just deleted from a table that held two, and the
\* expenses table holds rows.
RecordDeletedOthersKept ==
    /\ resp.op = "DELETE /records/:id" /\ resp.status = 200
    /\ resp.body \notin records
    /\ Cardinality(records) = 1
    /\ expenses # {}

\* The effect of a create request with a valid date on its table: with an
\* allowed payment_type one row, the row returned, is added; with any other
\* string the store raises the check violation and the table is unchanged.
PaymentTypeChecked(op, before, after, r) ==
    (r.op = op /\ IsDateText(r.req.date) /\ r.req.payment_type # NULL) =>
        IF r.req.payment_type \in PaymentTypes
        THEN /\ r.code = OK /\ r.status = 200
             /\ r.body \notin before
             /\ after = before \cup {r.body}
             /\ r.body.payment_type = r.req.payment_type
        ELSE /\ r.code = CheckViolation /\ r.status # 200
             /\ after = before

\* C11: every row of records and of expenses has one of the three allowed
\* payment types, whatever requests were made: a create request with an
\* allowed payment type adds its row, one with any other string fails with
\* the store's check violation and adds no row.
PaymentTypeAlwaysAllowed ==
    [][/\ \A row \in records' \cup expenses' : row.payment_type \in PaymentTypes
       /\ PaymentTypeChecked("POST /records", records, records', resp')
       /\ PaymentTypeChecked("POST /expenses", expenses, expenses', resp')]_vars

\* C11 witness: a record with a payment type outside the allowed three was
\* just refused by the check constraint, and both tables hold rows.
ForeignPaymentTypeRefused ==
    /\ resp.op = "POST /records" /\ resp.req.payment_type = "Cash"
    /\ resp.code = CheckViolation
    /\ records # {} /\ expenses # {}

(***************************************************************************)
(* Properties of the reports (checked under SpecReport, and under          *)
(* SpecConcurrent where writes run between the queries of a summary).      *)
(***************************************************************************)

\* The step sends the response of a daily summary.
SummaryResponds == resp'.op = DailySummaryOp /\ report'.pc = "idle"

\* The groups of a summary, read as numbers.
GroupsRead(groups) ==
    {[payment_type |-> g.payment_type, count |-> NumeralVal(g.count),
      total |-> NumeralVal(g.total.text)] : g \in groups}

\* One side of a summary (income or expenses) against the rows of its table
\* dated on the day: the total counts and sums them, and there is one group
\* per payment type present, holding that type's count and sum.
SideMatches(side, rows, col) ==
    /\ side.total.count = Num(Cardinality(rows))
    /\ side.total.amount = Num(SumCol(rows, col))
    /\ Cardinality(side.byPaymentType) = Cardinality({r.payment_type : r \in rows})
    /\ \A p \in {r.payment_type : r \in rows} :
           \E g \in GroupsRead(side.byPaymentType) :
               /\ g.payment_type = p
               /\ g.count = Cardinality({r \in rows : r.payment_type = p})
               /\ g.total = SumCol({r \in rows : r.payment_type = p}, col)

\* C12: with no write during the report, a daily summary for a date D that
\* is answered reports income.total as the number and the sum of price of
\* the records dated D, expenses.total likewise over the expenses dated D,
\* one group per payment type present with that type's sum, and netProfit
\* as income.total.amount - expenses.total.amount.
DailySummaryMatchesTables ==
    [][(SummaryResponds /\ resp'.status = 200) =>
          LET body == resp'.body
              recs == {r \in records : r.date = DateIn(resp'.req)}
              exps == {r \in expenses : r.date = DateIn(resp'.req)}
          IN  /\ body.date = resp'.req
              /\ SideMatches(body.income, recs, "price")
              /\ SideMatches(body.expenses, exps, "amount")
              /\ body.netProfit = Num(SumCol(recs, "price") - SumCol(exps, "amount"))
              /\ body.netProfit.val =
                     body.income.total.amount.val - body.expenses.total.amount.val]_vars

\* C12 witness: records of price 100 (Nakit) and 50 (Kart) and an expense of
\* 30 on the day give income.total {2, 150}, groups with sums 100 and 50 and
\* a net profit of 120, while another day holds an expense as well.
SummaryOfTwoRecords ==
    /\ resp.op = DailySummaryOp /\ resp.status = 200 /\ resp.req = Feb29
    /\ resp.body.income.total = [count |-> Num(2), amount |-> Num(150)]
    /\ {g.total : g \in GroupsRead(resp.body.income.byPaymentType)} = {100, 50}
    /\ resp.body.netProfit = Num(120)
    /\ Cardinality(expenses) = 2

\* C13: a daily summary for a date with no record and no expense reports
\* netProfit 0 and both totals as {count: 0, amount: 0}; no answered summary
\* carries NaN in total.count, total.amount or netProfit.
EmptyDaySummaryIsZero ==
    [][(SummaryResponds /\ resp'.status = 200) =>
          LET body == resp'.body
              zero == [count |-> Num(0), amount |-> Num(0)]
          IN  /\ (/\ RowsOnDate(records, resp'.req) = {}
                  /\ RowsOnDate(expenses, resp'.req) = {})
                 => /\ body.netProfit = Num(0)
                    /\ body.income.total = zero
                    /\ body.expenses.total = zero
              /\ ~body.netProfit.nan
              /\ ~body.income.total.count.nan /\ ~body.income.total.amount.nan
              /\ ~body.expenses.total.count.nan /\ ~body.expenses.total.amount.nan]_vars

\* C13 witness: the summary of a day without rows came back all zero while
\* both tables hold rows of another day.
EmptyDaySummarised ==
    /\ resp.op = DailySummaryOp /\ resp.status = 200 /\ resp.req = Jan31
    /\ resp.body.netProfit = Num(0)
    /\ resp.body.income.byPaymentType = {} /\ resp.body.expenses.byPaymentType = {}
    /\ records # {} /\ expenses # {}

\* The generic failure: status 500 and a body of the error message alone.
GenericFailure(r) == r.status = 500 /\ DOMAIN r.body = {"error"}

\* The response of a one-query report is the generic failure, or the rows of
\* its query.
RangeReportWhole(op, r, rows) ==
    r.op = op =>
        /\ ~(IsDateText(r.req.startDate) /\ IsDateText(r.req.endDate)) => r.status = 500
        /\ r.code # OK => GenericFailure(r)
        /\ r.code = OK => (r.status = 200 /\ r.body = rows)
        /\ r.status \in {200, 500}

\* C14: a report whose query fails is answered with the generic failure (500)
\* and no report data; a daily summary that is answered 200 holds the results
\* of all four queries; every request is answered exactly once.
ReportFailsWhole ==
    [][/\ SummaryResponds =>
            /\ resp'.status \in {200, 500}
            /\ ~IsDateText(resp'.req) => resp'.status = 500
            /\ resp'.code # OK => GenericFailure(resp')
            /\ resp'.code = OK =>
                   /\ resp'.status = 200
                   /\ report.pc = "totalExpense"
                   /\ resp'.body =
                        Summary(resp'.req,
                                GroupByPaymentType(records, "price", resp'.req).rows,
                                GroupByPaymentType(expenses, "amount", resp'.req).rows,
                                FirstRow(TotalOnDate(records, "price", resp'.req).rows),
                                FirstRow(TotalOnDate(expenses, "amount", resp'.req).rows))
            /\ report'.sent = 1
       /\ report'.pc # "idle" => report'.sent = 0
       /\ (report' # report /\ report'.pc # "idle") => resp' = resp
       /\ report'.sent <= 1
       /\ RangeReportWhole(StaffPerformanceOp, resp',
                           StaffPerformanceRows(resp'.req.startDate,
                                                resp'.req.endDate).rows)
       /\ RangeReportWhole(ServiceAnalysisOp, resp',
                           ServiceAnalysisRows(resp'.req.startDate,
                                               resp'.req.endDate).rows)]_vars

\* C14 witness: the third query of a daily summary failed on a day that has
\* records and expenses, and the response is the generic failure.
SummaryFailedLate ==
    /\ resp.op = DailySummaryOp /\ resp.status = 500 /\ resp.code = ConnectionFailure
    /\ resp.req = Feb29
    /\ report = [pc |-> "idle", sent |-> 1]
    /\ RowsOnDate(records, Feb29) # {} /\ RowsOnDate(expenses, Feb29) # {}

\* The counts and the sums of the groups of one side of a summary.
GroupCount(side) == SumCol(GroupsRead(side.byPaymentType), "count")
GroupTotal(side) == SumCol(GroupsRead(side.byPaymentType), "total")

\* C18: every daily summary sent is consistent in itself, also when records
\* and expenses are inserted and deleted between its queries: each total's
\* count is the sum of its groups' counts and its amount the sum of their
\* totals.
SummarySelfConsistent ==
    (resp.op = DailySummaryOp /\ resp.status = 200) =>
        /\ resp.body.income.total.count = Num(GroupCount(resp.body.income))
        /\ resp.body.income.total.amount = Num(GroupTotal(resp.body.income))
        /\ resp.body.expenses.total.count = Num(GroupCount(resp.body.expenses))
        /\ resp.body.expenses.total.amount = Num(GroupTotal(resp.body.expenses))

(***************************************************************************)
(* Properties of setupDatabase() (checked under SpecSetup).                *)
(***************************************************************************)

\* A step of setupDatabase() (every one of them moves the run on).
SetupStep == setup' # setup

\* Table t through a step of setupDatabase(): the count decides for the
\* seeding exactly when the table is empty at that moment, and the table
\* changes only while it is being seeded after such a count, and then by
\* gaining default rows.
SeededOnlyWhenEmpty(t, before, after) ==
    /\ (setup.pc = "count" /\ SeedTables[setup.t] = t /\ setup'.pc # "idle") =>
           ((setup'.pc = "insert") <=> (before = {}))
    /\ (setup.pc = "count" /\ SeedTables[setup.t] = t /\ before # {}) =>
           setup'.pc # "insert"
    /\ after # before =>
           /\ setup.pc = "insert" /\ SeedTables[setup.t] = t
           /\ before \subseteq after
           /\ \A r \in after \ before : r.name \in Range(DefaultsOf(t)) /\ r.active

\* C15: setupDatabase() seeds services, staff and expense_types each on its
\* own and only when the table is empty at its count; a table holding a row,
\* active or not, is left as it is, and a run after a completed run changes
\* no table.
SetupSeedsOnlyEmptyTables ==
    [][SetupStep =>
          /\ SeededOnlyWhenEmpty("services", services, services')
          /\ SeededOnlyWhenEmpty("staff", staff, staff')
          /\ SeededOnlyWhenEmpty("expense_types", expense_types, expense_types')
          /\ customers' = customers /\ records' = records /\ expenses' = expenses
          /\ setup.completed >= 1 =>
                 /\ services' = services /\ staff' = staff
                 /\ expense_types' = expense_types]_vars

\* C15 witness: a second run has completed; services and expense_types hold
\* their defaults, while staff, which held one inactive row at its count,
\* still holds that row alone.
SecondSetupLeftTablesAlone ==
    /\ setup.pc = "idle" /\ setup.completed = 2
    /\ services = Seeded(DefaultServices)
    /\ expense_types = Seeded(DefaultExpenseTypes)
    /\ Cardinality(staff) = 1
    /\ \A r \in staff : ~r.active

(***************************************************************************)
(* Properties of the statement builders (checked under SpecBuild).         *)
(***************************************************************************)

\* The placeholders written in a clause, in the order of its terms.
Placeholders(terms) ==
    LET withPh == SelectSeq(terms, LAMBDA t : t.ph # 0)
    IN  [i \in DOMAIN withPh |-> withPh[i].ph]

\* Every placeholder of the clause built from object o is bound, in the
\* parameter list, to the value o holds for the column it is written next to.
BoundToOwnColumn(terms, o, values) ==
    \A i \in DOMAIN terms :
        terms[i].ph # 0 =>
            /\ terms[i].ph \in DOMAIN values
            /\ \E k \in DOMAIN o :
                   o[k][1] = terms[i].col /\ values[terms[i].ph] = o[k][2]

\* C16: in the statement update() builds, the k-th SET column is written
\* with $k and the j-th WHERE column with $(n+j), n the number of SET
\* columns; the parameters are the data values followed by the where
\* values; so each placeholder is bound to its own column's value and there
\* are as many placeholders as parameters.
UpdatePlaceholdersMatch ==
    built.fn = "update" =>
        LET n == Len(built.data)
        IN  /\ \A k \in 1..n :
                   built.set[k].col = built.data[k][1] /\ built.set[k].ph = k
            /\ Len(built.clause) = Len(built.where)
            /\ \A j \in DOMAIN built.where :
                   /\ built.clause[j].col = built.where[j][1]
                   /\ built.clause[j].ph = n + j
            /\ built.values = ValuesOf(built.data) \o ValuesOf(built.where)
            /\ BoundToOwnColumn(built.set, built.data, built.values)
            /\ BoundToOwnColumn(built.clause, built.where, built.values)
            /\ Placeholders(built.set \o built.clause)
                   = [i \in 1..Len(built.values) |-> i]

\* C16 witness: an update of two columns by two conditions, a column being
\* in both with different values.
UpdateOfTwoByTwo ==
    /\ built.fn = "update"
    /\ Len(built.data) = 2 /\ Len(built.where) = 2
    /\ \E k, j \in 1..2 :
           /\ built.data[k][1] = built.where[j][1]
           /\ built.data[k][2] # built.where[j][2]

\* C17: the clause and the values buildWhereClause returns agree for every
\* conditions object, null values included: each placeholder $i refers to
\* position i of the values, which holds the value of the column it is
\* written next to, and the placeholders are exactly $1..$len(values).
WhereClauseMatchesValues ==
    built.fn = "buildWhereClause" =>
        /\ BoundToOwnColumn(built.clause, built.where, built.values)
        /\ Placeholders(built.clause) = [i \in 1..Len(built.values) |-> i]

(***************************************************************************)
(* Properties of the shutdown (checked under SpecShutdown).                *)
(***************************************************************************)

\* C8: the pool is ended only after the HTTP server has stopped accepting
\* requests and every request in flight has finished.
PoolEndedAfterRequests ==
    pool = "ended" => (server # "listening" /\ handling + querying = 0)

\* C19: during shutdown pool.end() is called at most once on the shared
\* pool, whatever signals arrive and however the handlers of db.js and of
\* app.js interleave, and the process exits with code 0 only after the pool
\* has ended.
PoolEndCalledAtMostOnce ==
    /\ endCalls <= 1
    /\ proc = "exit0" => pool = "ended"

====
